---- MODULE Spec2Model ----
(***************************************************************************)
(* The two scripts of gnss-json-to-rinex3:                                 *)
(*   rinex-mapper.py  parses a RINEX observation file, selects one Doppler *)
(*                    observable per satellite, cleans each series and     *)
(*                    plots it;                                            *)
(*   rinex-reader.py  parses the header and the time span of a file.       *)
(* The parser (georinex) and the plotting backend are libraries: the       *)
(* parser is modelled by what it returns for a file, the plot by the list  *)
(* of (label, x, y) handed to ax.plot.                                     *)
(*                                                                         *)
(* Spec      both scripts from their first line. rinex-mapper.py never     *)
(*           imports sys, so its argument check at line 10 raises          *)
(*           NameError and no later statement of it runs.                  *)
(* SpecBody  rinex-mapper.py from line 15 on (the statements after the     *)
(*           argument check), started with one filename argument: the      *)
(*           parsing, the selection loop and the plot loop as written.     *)
(*                                                                         *)
(* A dataset is rectangular in georinex (every series as long as the       *)
(* timeline); the model also lets a tracked series be shorter or longer,   *)
(* the case the script guards against with min(len(y), len(times)).        *)
(***************************************************************************)
EXTENDS Integers, Sequences, FiniteSets, TLC

VARIABLES
    prog,       \* which script runs: "mapper" or "reader"
    argc,       \* len(sys.argv)
    file,       \* what the parser makes of the input file
    pc,         \* position in the script
    out,        \* messages printed so far
    err,        \* the uncaught exception that ended the run, or "none"
    data,       \* mapper: the dataset returned by gr.load
    dopplers,   \* mapper: dict satellite -> array (with the code it came from)
    order,      \* mapper: insertion order of the keys of dopplers
    obi,        \* mapper: index of the outer selection loop (line 48)
    times,      \* mapper: pd.to_datetime(data.time.values)
    k,          \* mapper: index of the plot loop (line 69)
    plotted     \* mapper: the calls ax.plot(x, y, label=sv) made so far

vars == <<prog, argc, file, pc, out, err, data, dopplers, order, obi, times, k, plotted>>

----------------------------------------------------------------------------
(* Bounds of the model *)

MaxSats == 2    \* satellites in a dataset
MaxLen == 2     \* samples in a series, epochs in a timeline
MaxArgc == 3    \* len(sys.argv): script name plus up to two arguments

----------------------------------------------------------------------------
(* Values *)

NaN == "nan"
Zero == "0.0"
Samples == {NaN, Zero, "5.0"}

Range(s) == {s[i] : i \in 1..Len(s)}
Min(a, b) == IF a < b THEN a ELSE b
Fill(v, n) == [i \in 1..n |-> v]
SeqsUpTo(S, n) == UNION {[1..m -> S] : m \in 0..n}

\* A satellite id is <<constellation prefix, slot>>: "G01" is <<"G", 1>>.
Pool == << <<"G", 1>>, <<"E", 5>>, <<"R", 1>>, <<"C", 7>>, <<"J", 2>>, <<"X", 5>> >>

SubPool(I) ==
    LET F[i \in 0..Len(Pool)] ==
            IF i = 0 THEN <<>>
            ELSE IF i \in I THEN Append(F[i - 1], Pool[i]) ELSE F[i - 1]
    IN  F[Len(Pool)]

\* The observable under which a receiver logs the Doppler of a satellite; the
\* other observables of that satellite are NaN in the (rectangular) dataset.
TrackedOn(sv) ==
    IF sv[1] = "E" THEN "D1X" ELSE IF sv[1] = "C" THEN "D2X" ELSE "D1C"

ObList == <<"D1C", "D1X", "D2X">>

MkDataset(svs, codes, T, raw, contig) ==
    [ok |-> TRUE,
     sv |-> svs,
     time |-> [i \in 1..T |-> i],
     vars |-> [c \in codes |->
                 [s \in Range(svs) |-> IF c = TrackedOn(s) THEN raw[s] ELSE Fill(NaN, T)]],
     contig |-> contig]

Malformed == [ok |-> FALSE]

\* Datasets that vary the satellites and the observables present.
ConstellationDatasets ==
    {MkDataset(SubPool(I), codes, T, [s \in Range(SubPool(I)) |-> Fill("5.0", MaxLen)], c) :
        I \in {J \in SUBSET (1..Len(Pool)) : Cardinality(J) <= MaxSats},
        codes \in SUBSET Range(ObList),
        T \in {0, MaxLen},
        c \in BOOLEAN}

ConstellationFiles ==
    {[hdrOk |-> h, body |-> b] : h \in BOOLEAN, b \in {Malformed} \cup ConstellationDatasets}

\* A well-formed file of the first m satellites of the pool, all observables
\* present and T epochs. The first two satellites carry the tracked series
\* given by raw, the others a fixed one.
SeriesFile(m, T, raw, c) ==
    [hdrOk |-> TRUE,
     body |-> MkDataset(SubSeq(Pool, 1, m), Range(ObList), T,
                        [s \in Range(SubSeq(Pool, 1, m)) |->
                            IF s \in DOMAIN raw THEN raw[s] ELSE Fill("5.0", MaxLen)],
                        c)]

NoData == [sv |-> <<>>, time |-> <<>>, vars |-> <<>>]

----------------------------------------------------------------------------
(* Both scripts: module level names and the argument check *)

\* The names bound by the import statements of each script.
Imports(p) ==
    IF p = "mapper"
    THEN {"gr", "np", "pd", "plt", "mdates", "warnings"}
    ELSE {"gr", "sys", "xr", "warnings", "yaspin"}

\* if len(sys.argv) != 2: print usage; sys.exit()
\* Evaluating sys.argv raises NameError when the script never imported sys.
ArgCheck ==
    /\ pc = "argcheck"
    /\ IF "sys" \notin Imports(prog)
       THEN /\ pc' = "error"
            /\ err' = "NameError"
            /\ out' = out
       ELSE IF argc # 2
       THEN /\ pc' = "exit"
            /\ out' = Append(out, "Please provide a filename:")
            /\ err' = err
       ELSE /\ pc' = "header"
            /\ UNCHANGED <<out, err>>
    /\ UNCHANGED <<prog, argc, file, data, dopplers, order, obi, times, k, plotted>>

----------------------------------------------------------------------------
(* rinex-reader.py *)

\* print(f"[###] {input_file}")
\* try: h = gr.rinexheader(input_file) ... except Exception: print; sys.exit()
ReaderHeader ==
    /\ prog = "reader"
    /\ pc = "header"
    /\ IF file.hdrOk
       THEN /\ out' = out \o <<"[###]", "[#] Header parsed successfully">>
            /\ pc' = "gettime"
       ELSE /\ out' = out \o <<"[###]", "[-] Error parsing header:">>
            /\ pc' = "exit"
    /\ UNCHANGED <<prog, argc, file, err, data, dopplers, order, obi, times, k, plotted>>

\* try: times = gr.gettime(input_file); print times[0], times[-1], len(times)
\* except Exception: print
\* times[0] of an empty time span raises IndexError inside the try block.
ReaderGetTime ==
    /\ prog = "reader"
    /\ pc = "gettime"
    /\ IF file.body.ok
       THEN IF Len(file.body.time) > 0
            THEN out' = Append(out, "[#] Time info extracted successfully.")
            ELSE out' = out \o <<"[#] Time info extracted successfully.",
                                 "[-] Error extracting time info: IndexError">>
       ELSE out' = Append(out, "[-] Error extracting time info: parser error")
    /\ pc' = "print"
    /\ UNCHANGED <<prog, argc, file, err, data, dopplers, order, obi, times, k, plotted>>

\* print()
ReaderPrint ==
    /\ prog = "reader"
    /\ pc = "print"
    /\ out' = Append(out, "")
    /\ pc' = "done"
    /\ UNCHANGED <<prog, argc, file, err, data, dopplers, order, obi, times, k, plotted>>

----------------------------------------------------------------------------
(* rinex-mapper.py: parsing *)

\* try: h = gr.rinexheader(input_file); print(...)  except Exception: print(...)
\* The handler prints and falls through to the load.
ParseHeader ==
    /\ prog = "mapper"
    /\ pc = "header"
    /\ out' = Append(out, IF file.hdrOk THEN "Header parsed OK:"
                                        ELSE "georinex.rinexheader() error:")
    /\ pc' = "load"
    /\ UNCHANGED <<prog, argc, file, err, data, dopplers, order, obi, times, k, plotted>>

\* data = gr.load(input_file), outside any try block
Load ==
    /\ prog = "mapper"
    /\ pc = "load"
    /\ IF file.body.ok
       THEN /\ data' = file.body
            /\ pc' = "select"
            /\ err' = err
       ELSE /\ data' = data
            /\ pc' = "error"
            /\ err' = "ParseFailure"
    /\ UNCHANGED <<prog, argc, file, out, dopplers, order, obi, times, k, plotted>>

----------------------------------------------------------------------------
(* rinex-mapper.py: the selection loop, lines 47-59 *)

startswith(sv, p) == sv[1] = p

\* Mutant: QZSS taken from the BeiDou observable, as in the table the script
\* keeps in its disabled block.
MatchesOldTable(ob, sv) ==
    \/ ob = "D1C" /\ startswith(sv, "G")
    \/ ob = "D1C" /\ startswith(sv, "R")
    \/ ob = "D1X" /\ startswith(sv, "E")
    \/ ob = "D2X" /\ startswith(sv, "C")
    \/ ob = "D2X" /\ startswith(sv, "J")

\* Mutant: a closing else branch that takes every other satellite from D1C.
MatchesFallback(ob, sv) ==
    \/ ob = "D1X" /\ startswith(sv, "E")
    \/ ob = "D2X" /\ startswith(sv, "C")
    \/ ob = "D1C" /\ ~startswith(sv, "E") /\ ~startswith(sv, "C")

\* The if/elif chain: does observable ob supply the series of satellite sv?
Matches(ob, sv) ==
    \/ ob = "D1C" /\ startswith(sv, "G")
    \/ ob = "D1C" /\ startswith(sv, "R")
    \/ ob = "D1X" /\ startswith(sv, "E")
    \/ ob = "D2X" /\ startswith(sv, "C")
    \/ ob = "D1C" /\ startswith(sv, "J")

\* np.asarray(data[ob].sel(sv=sv).values).ravel(): the samples of (ob, sv).
\* ravel() copies only if needed, so the array shares the dataset's memory
\* exactly when the selection is contiguous there (view). ob records where the
\* array came from.
Fetch(ds, ob, sv) == [arr |-> ds.vars[ob][sv], ob |-> ob, view |-> ds.contig]

\* dopplers[str(sv)] = e: a new key goes to the end, an old key keeps its place.
Put(dop, sv, e) == [s \in DOMAIN dop \cup {sv} |-> IF s = sv THEN e ELSE dop[s]]

PutOrder(dop, ord, sv) == IF sv \in DOMAIN dop THEN ord ELSE Append(ord, sv)

\* for sv in data["D1C"].sv.values: from the i-th satellite on. data[ob] raises
\* KeyError when the dataset has no observable ob; the entries made before stay.
RECURSIVE SelectInner(_, _, _, _, _)
SelectInner(ds, ob, i, dop, ord) ==
    IF i > Len(ds.sv)
    THEN [dopplers |-> dop, order |-> ord, err |-> "none"]
    ELSE LET sv == ds.sv[i] IN
         IF Matches(ob, sv)
         THEN IF ob \in DOMAIN ds.vars
              THEN SelectInner(ds, ob, i + 1,
                               Put(dop, sv, Fetch(ds, ob, sv)), PutOrder(dop, ord, sv))
              ELSE [dopplers |-> dop, order |-> ord, err |-> "KeyError"]
         ELSE SelectInner(ds, ob, i + 1, dop, ord)

\* One iteration of `for ob in [...]`: data["D1C"] is evaluated for its sv
\* coordinate first, then the inner loop runs.
SelectLoop(ds, ob, dop, ord) ==
    IF "D1C" \notin DOMAIN ds.vars
    THEN [dopplers |-> dop, order |-> ord, err |-> "KeyError"]
    ELSE SelectInner(ds, ob, 1, dop, ord)

SelectOb ==
    /\ prog = "mapper"
    /\ pc = "select"
    /\ obi <= Len(ObList)
    /\ LET r == SelectLoop(data, ObList[obi], dopplers, order) IN
        /\ dopplers' = r.dopplers
        /\ order' = r.order
        /\ IF r.err = "none"
           THEN /\ obi' = obi + 1
                /\ UNCHANGED <<pc, err>>
           ELSE /\ obi' = obi
                /\ pc' = "error"
                /\ err' = r.err
    /\ UNCHANGED <<prog, argc, file, out, data, times, k, plotted>>

\* times = pd.to_datetime(data.time.values); fig, ax = plt.subplots(...)
MakeFigure ==
    /\ prog = "mapper"
    /\ pc = "select"
    /\ obi > Len(ObList)
    /\ times' = data.time
    /\ pc' = "clean"
    /\ UNCHANGED <<prog, argc, file, out, err, data, dopplers, order, obi, k, plotted>>

----------------------------------------------------------------------------
(* rinex-mapper.py: the plot loop, lines 69-87 *)

\* Mutant: s[-n:], the last n samples.
TruncateTail(s, n) == SubSeq(s, Len(s) - n + 1, Len(s))

\* s[:n]
Truncate(s, n) == SubSeq(s, 1, n)

\* np.all(np.isnan(y))
AllNaN(y) == \A i \in 1..Len(y) : y[i] = NaN

\* Mutant: y_value = np.nan, an assignment to the loop variable.
ZeroToNaNNoop(y) == y

\* for i, y_value in enumerate(y): if y_value == 0: y[i] = np.nan
\* NaN == 0 is false.
ZeroToNaN(y) == [i \in 1..Len(y) |-> IF y[i] = Zero THEN NaN ELSE y[i]]

\* The body of the plot loop for one array: keep says whether ax.plot is
\* reached, x and y are what it is called with.
AlignAndClean(arr, tm) ==
    LET n == Min(Len(arr), Len(tm)) IN
    IF n = 0
    THEN [keep |-> FALSE, n |-> n, x |-> <<>>, y |-> <<>>]
    ELSE LET x == Truncate(tm, n)
             y == Truncate(arr, n)
         IN  IF AllNaN(y)
             THEN [keep |-> FALSE, n |-> n, x |-> x, y |-> y]
             ELSE [keep |-> TRUE, n |-> n, x |-> x, y |-> ZeroToNaN(y)]

\* Mutant: one buffer shared by all satellites.
WriteBackShared(dop, sv, y) ==
    [s \in DOMAIN dop |-> [dop[s] EXCEPT !.arr = y \o SubSeq(@, Len(y) + 1, Len(@))]]

\* y = np.asarray(arr).ravel(); y = y[:n] are views of arr, so y[i] = np.nan
\* writes the first Len(y) samples of the array stored in dopplers[sv].
WriteBack(dop, sv, y) ==
    [dop EXCEPT ![sv].arr = y \o SubSeq(@, Len(y) + 1, Len(@))]

\* The same write seen in the dataset, when the stored array is a view of it.
WriteThrough(ds, e, sv, y) ==
    IF e.view
    THEN [ds EXCEPT !.vars[e.ob][sv] = y \o SubSeq(@, Len(y) + 1, Len(@))]
    ELSE ds

CleanSat ==
    /\ prog = "mapper"
    /\ pc = "clean"
    /\ k <= Len(order)
    /\ LET sv == order[k]
           r == AlignAndClean(dopplers[sv].arr, times)
       IN  IF r.keep
           THEN /\ dopplers' = WriteBack(dopplers, sv, r.y)
                /\ data' = WriteThrough(data, dopplers[sv], sv, r.y)
                /\ plotted' = Append(plotted, [label |-> sv, x |-> r.x, y |-> r.y])
           ELSE UNCHANGED <<dopplers, data, plotted>>
    /\ k' = k + 1
    /\ UNCHANGED <<prog, argc, file, pc, out, err, order, obi, times>>

\* Axis formatting, legend, plt.savefig, plt.show, plt.close and the last print.
SavePlot ==
    /\ prog = "mapper"
    /\ pc = "clean"
    /\ k > Len(order)
    /\ out' = Append(out, "Saved plot to dopplers_all.pdf")
    /\ pc' = "done"
    /\ UNCHANGED <<prog, argc, file, err, data, dopplers, order, obi, times, k, plotted>>

----------------------------------------------------------------------------
(* Specifications *)

Start(p, a, f, at) ==
    /\ prog = p
    /\ argc = a
    /\ file = f
    /\ pc = at
    /\ out = <<>>
    /\ err = "none"
    /\ data = NoData
    /\ dopplers = <<>>
    /\ order = <<>>
    /\ obi = 1
    /\ times = <<>>
    /\ k = 1
    /\ plotted = <<>>

\* Either script, from its first line.
Init ==
    \E p \in {"mapper", "reader"}, a \in 1..MaxArgc, f \in ConstellationFiles :
        Start(p, a, f, "argcheck")

Next ==
    \/ ArgCheck
    \/ ReaderHeader
    \/ ReaderGetTime
    \/ ReaderPrint

Spec == Init /\ [][Next]_vars

\* rinex-mapper.py from line 15, given one filename argument.
InitBody ==
    \/ \E f \in ConstellationFiles : Start("mapper", 2, f, "header")
    \/ \E m \in 1..MaxSats, T \in 0..MaxLen, c \in BOOLEAN :
        \E raw \in [Range(SubSeq(Pool, 1, Min(m, 2))) -> SeqsUpTo(Samples, MaxLen)] :
            Start("mapper", 2, SeriesFile(m, T, raw, c), "header")

NextBody ==
    \/ ParseHeader
    \/ Load
    \/ SelectOb
    \/ MakeFigure
    \/ CleanSat
    \/ SavePlot

SpecBody == InitBody /\ [][NextBody]_vars

----------------------------------------------------------------------------
(* Properties *)

\* The selection table of the specification: the observable of a prefix.
TableCode(p) ==
    IF p \in {"G", "R", "J"} THEN "D1C"
    ELSE IF p = "E" THEN "D1X"
    ELSE IF p = "C" THEN "D2X"
    ELSE "none"

SelectionOver == pc \in {"clean", "done"} \/ (pc = "select" /\ obi > Len(ObList))

\* The series of satellite sv as loaded from the file, under the observable
\* its entry of dopplers was taken from.
Raw(sv) == file.body.vars[dopplers[sv].ob][sv]

Plotted == {plotted[i] : i \in 1..Len(plotted)}

\* C1: every entry of dopplers comes from the observable the table gives for
\* its prefix (D1C for G, R, J; D1X for E; D2X for C) at every moment, holds
\* that observable's series until the plot loop starts, and is the only entry
\* of its satellite; once the selection loop is over every satellite with a
\* recognised prefix has an entry.
C1_SelectedFromTableCode ==
    /\ \A s \in DOMAIN dopplers :
        /\ dopplers[s].ob = TableCode(s[1])
        /\ pc = "select" => dopplers[s].arr = file.body.vars[TableCode(s[1])][s]
    /\ Len(order) = Cardinality(DOMAIN dopplers)
    /\ Range(order) = DOMAIN dopplers
    /\ SelectionOver =>
        \A s \in Range(data.sv) : TableCode(s[1]) # "none" => s \in DOMAIN dopplers

C1_Witness ==
    /\ pc = "select"
    /\ obi > Len(ObList)
    /\ \E s, t \in DOMAIN dopplers : dopplers[s].ob = "D1C" /\ dopplers[t].ob # "D1C"

\* C2: a satellite whose prefix is none of G, R, J, E, C is never a key of
\* dopplers and never the label of a plotted series.
C2_UnmappedNeverSelected ==
    /\ \A s \in DOMAIN dopplers : TableCode(s[1]) # "none"
    /\ \A p \in Plotted : TableCode(p.label[1]) # "none"

C2_Witness ==
    /\ pc = "done"
    /\ \E s \in Range(data.sv) : TableCode(s[1]) = "none"
    /\ Len(plotted) >= 1

\* C3: a satellite whose truncated series holds only NaN and exact zeros is
\* never handed to ax.plot.
C3_AllMissingNeverPlotted ==
    \A p \in Plotted :
        LET raw == Raw(p.label)
            n == Min(Len(raw), Len(times))
        IN  ~(\A j \in 1..n : raw[j] \in {NaN, Zero})

\* C4: when the dataset lacks the observable the table gives for one of its
\* satellites, the run is not aborted.
C4_MissingObservableSkipsSatellite ==
    (/\ file.hdrOk
     /\ file.body.ok
     /\ \E s \in Range(file.body.sv) :
            TableCode(s[1]) \notin DOMAIN file.body.vars \cup {"none"})
    => pc # "error"

ParserFailed ==
    \/ err = "ParseFailure"
    \/ \E i \in 1..Len(out) :
        out[i] \in {"[-] Error parsing header:",
                    "[-] Error extracting time info: parser error",
                    "georinex.rinexheader() error:"}

\* C5: once a parser call has failed the run has aborted.
C5_ParseFailureAborts == ParserFailed => pc \in {"exit", "error"}

\* C6: a plotted series has length n = min(len(raw), len(times)) > 0, its x
\* is the first n timestamps, and its j-th sample is the j-th raw sample or
\* the NaN that replaced a zero there.
C6_OutputIsFirstNSamples ==
    \A p \in Plotted :
        LET raw == Raw(p.label)
            n == Min(Len(raw), Len(times))
        IN  /\ n > 0
            /\ Len(p.y) = n
            /\ p.x = [j \in 1..n |-> times[j]]
            /\ \A j \in 1..n : p.y[j] = raw[j] \/ (raw[j] = Zero /\ p.y[j] = NaN)

C6_Witness ==
    \E p \in Plotted : Len(p.y) >= 1 /\ Len(p.y) < Len(Raw(p.label))

\* C7: in a plotted series every position whose raw sample was exactly zero
\* holds NaN and every other position holds its raw sample.
C7_ZerosBecomeNaN ==
    \A p \in Plotted :
        \A j \in 1..Len(p.y) :
            /\ j <= Len(Raw(p.label))
            /\ Raw(p.label)[j] = Zero => p.y[j] = NaN
            /\ Raw(p.label)[j] # Zero => p.y[j] = Raw(p.label)[j]

C7_Witness ==
    \E p \in Plotted :
        \E i, j \in 1..Len(p.y) :
            /\ Raw(p.label)[i] = Zero
            /\ Raw(p.label)[j] = "5.0"
            /\ p.y = <<NaN, "5.0">> \/ p.y = <<"5.0", NaN>>

\* C8: cleaning a plotted series again, with the same timeline, keeps it and
\* leaves its samples as they are.
C8_CleaningIdempotent ==
    \A p \in Plotted :
        LET r == AlignAndClean(p.y, times)
        IN  r.keep /\ r.y = p.y

\* C9: with one filename argument and a file the parser accepts, the mapper
\* never ends in an uncaught exception.
C9_MapperCompletes ==
    (prog = "mapper" /\ argc = 2 /\ file.hdrOk /\ file.body.ok) => pc # "error"

\* C10 as stated: a step of the plot loop changes neither the arrays stored
\* in dopplers nor the dataset.
C10_CleaningIsPure ==
    [][pc = "clean" => (dopplers' = dopplers /\ data' = data)]_vars

\* b is a with nothing changed but zeros among the first n samples turned NaN
OnlyZerosBecomeNaN(a, b, n) ==
    /\ Len(b) = Len(a)
    /\ \A j \in 1..Len(a) : b[j] = a[j] \/ (j <= n /\ a[j] = Zero /\ b[j] = NaN)

\* C10 as amended: processing the k-th satellite of the plot loop leaves the
\* array of every other satellite and every other series of the dataset as
\* they are; in the satellite's own array, and in its series of the dataset,
\* nothing changes but zeros among the first n samples, which become NaN.
C10_CleaningTouchesOnlyOwnSeries ==
    [][(pc = "clean" /\ k <= Len(order)) =>
        LET sv == order[k]
            e == dopplers[sv]
            n == Min(Len(e.arr), Len(times))
        IN  /\ DOMAIN dopplers' = DOMAIN dopplers
            /\ \A s \in DOMAIN dopplers \ {sv} : dopplers'[s] = dopplers[s]
            /\ dopplers'[sv].ob = e.ob
            /\ OnlyZerosBecomeNaN(e.arr, dopplers'[sv].arr, n)
            /\ \A c \in DOMAIN data.vars : \A s \in DOMAIN data.vars[c] :
                IF c = e.ob /\ s = sv
                THEN OnlyZerosBecomeNaN(data.vars[c][s], data'.vars[c][s], n)
                ELSE data'.vars[c][s] = data.vars[c][s]
      ]_vars

C10_Witness ==
    /\ pc = "clean"
    /\ Cardinality(DOMAIN dopplers) >= 2
    /\ \E s \in DOMAIN dopplers : dopplers[s].arr # Raw(s)
    /\ \E s \in DOMAIN dopplers : \E j \in 1..Len(dopplers[s].arr) : dopplers[s].arr[j] = Zero

====
